---- MODULE Spec2Model ----
(***************************************************************************)
(* Model of src/foodpl.jsx: the RestaurantPrevisitCalculator component.    *)
(*                                                                         *)
(* The component's React state is one record (ui).  A handler replaces     *)
(* fields of the record; RunEffects is one commit of React: the useEffect  *)
(* callbacks whose dependency arrays changed since the last commit run in  *)
(* declaration order, each reading the values of that render and queueing  *)
(* its setState calls, and the queue is applied as one batch.  A state is  *)
(* settled when no dependency array differs from the committed one.        *)
(*                                                                         *)
(* Numbers are JavaScript numbers modelled exactly: a finite number is a   *)
(* reduced fraction <<n, d>> with d > 0; NaN, Infinity and -Infinity are   *)
(* <<0,0>>, <<1,0>> and <<-1,0>>.  Rounding of IEEE doubles is not         *)
(* modelled.  A string is the sequence of its characters, each character   *)
(* named by its Unicode code point ("u6771" is U+6771).                    *)
(***************************************************************************)
EXTENDS Integers, Sequences, FiniteSets, TLC

VARIABLES ui, ui2, nOps, call

vars == <<ui, ui2, nOps, call>>

\* Bound on the number of handler invocations in one behaviour.
MaxOps == 3

\* Bound on the number of fragments an enumerated address is built from.
MaxFrags == 2

-----------------------------------------------------------------------------
(* Numbers *)

Abs(n) == IF n < 0 THEN -n ELSE n

RECURSIVE GCD(_, _)
GCD(a, b) == IF b = 0 THEN a ELSE GCD(b, a % b)

\* The fraction n/d (d # 0) in lowest terms with a positive denominator.
Rat(n, d) ==
  LET g == GCD(Abs(n), Abs(d))
      s == IF d < 0 THEN -1 ELSE 1
  IN  <<(s * n) \div g, (s * d) \div g>>

Num(n) == <<n, 1>>
Zero == <<0, 1>>
One == <<1, 1>>
NaN == <<0, 0>>
PosInf == <<1, 0>>
NegInf == <<-1, 0>>

\* Number.isFinite
IsFinite(x) == x[2] # 0

Add(x, y) ==
  LET g == GCD(x[2], y[2])
  IN  Rat(x[1] * (y[2] \div g) + y[1] * (x[2] \div g), (x[2] \div g) * y[2])

Neg(x) == <<-x[1], x[2]>>

Sub(x, y) == Add(x, Neg(y))

Mul(x, y) ==
  LET g1 == GCD(Abs(x[1]), y[2])
      g2 == GCD(Abs(y[1]), x[2])
  IN  Rat((x[1] \div g1) * (y[1] \div g2), (x[2] \div g2) * (y[2] \div g1))

\* x / y for finite x and finite y # 0
Quot(x, y) == Mul(x, Rat(y[2], y[1]))

Lt(x, y) ==
  LET g == GCD(x[2], y[2])
  IN  x[1] * (y[2] \div g) < y[1] * (x[2] \div g)

Le(x, y) == ~Lt(y, x)

MathMax(x, y) == IF Lt(x, y) THEN y ELSE x

MathMin(x, y) == IF Lt(y, x) THEN y ELSE x

-----------------------------------------------------------------------------
(* Utilities *)

\* clamp without its upper bound
clamp_noUpper(n, min, max) == MathMax(min, n)

clamp(n, min, max) == MathMin(max, MathMax(min, n))

\* safeDiv guarding only the zero denominator; a non-finite operand yields NaN
safeDiv_zeroOnly(a, b) ==
  IF b = Zero THEN Zero
  ELSE IF ~IsFinite(a) \/ ~IsFinite(b) THEN NaN
  ELSE Quot(a, b)

safeDiv(a, b) ==
  IF ~IsFinite(a) \/ ~IsFinite(b) \/ b = Zero THEN Zero ELSE Quot(a, b)

\* The text formatPct prints is v.toFixed(1) and a percent sign, v being 100 r
\* or 0 for a non-finite r: formatPct(r) is the number of tenths of a percent
\* the text shows, v rounded half away from zero.
formatPct(r) ==
  IF ~IsFinite(r) THEN 0
  ELSE LET tenths == (2 * 1000 * Abs(r[1]) + r[2]) \div (2 * r[2])
       IN  IF r[1] < 0 THEN -tenths ELSE tenths

\* v is the value Number(text) gives for the typed text
numOr0(v) == IF IsFinite(v) THEN v ELSE Zero

-----------------------------------------------------------------------------
(* Presets *)

IndustryKey == {"izakaya", "yakiniku", "cafe", "ramen", "restaurant", "takeout"}

ScenarioKey == {"low", "standard", "high"}

Rates(f, l, r) == [food |-> Rat(f, 100), labor |-> Rat(l, 100), rent |-> Rat(r, 100)]

INDUSTRY_PRESETS ==
  [izakaya |->
     [low |-> Rates(28, 26, 9), standard |-> Rates(30, 30, 10), high |-> Rates(33, 34, 12)],
   yakiniku |->
     [low |-> Rates(34, 24, 9), standard |-> Rates(38, 28, 10), high |-> Rates(42, 32, 12)],
   cafe |->
     [low |-> Rates(24, 28, 10), standard |-> Rates(28, 32, 12), high |-> Rates(32, 36, 14)],
   ramen |->
     [low |-> Rates(26, 22, 8), standard |-> Rates(30, 25, 10), high |-> Rates(34, 28, 12)],
   restaurant |->
     [low |-> Rates(28, 26, 9), standard |-> Rates(32, 30, 10), high |-> Rates(36, 34, 12)],
   takeout |->
     [low |-> Rates(32, 18, 6), standard |-> Rates(35, 20, 8), high |-> Rates(38, 24, 10)]]

DAYS_OPTIONS == {Num(22), Num(24), Num(26), Num(28), Num(30)}

PEOPLE_PER_GROUP_OPTIONS == {Num(1), Num(2), Num(3), Num(4), Num(5), Num(6)}

TURNOVER_OPTIONS == {Rat(12, 10), Rat(15, 10), Num(2), Rat(25, 10), Num(3)}

OCCUPANCY_OPTIONS == {Rat(45, 100), Rat(55, 100), Rat(65, 100), Rat(75, 100), Rat(85, 100)}

SEATS_PER_TSUBO_OPTIONS == {Rat(16, 10), Rat(18, 10), Num(2), Rat(22, 10), Rat(24, 10)}

UnitType == {"per_person", "per_group"}

-----------------------------------------------------------------------------
(* Area / rent master.  A RegExp of the table is an alternation of literal *)
(* strings: it is the set of its alternatives, and it matches a string     *)
(* that contains one of them.                                              *)

AREA_MASTER ==
  <<
    \* 東京 都心（都心部・23区中心）
    [key |-> "tokyo_core", label |-> "label_tokyo_core", baseRentPerTsubo |-> 35000, patterns |-> <<
      \* /東京都/
      {<<"u6771","u4EAC","u90FD">>},
      \* /渋谷|新宿|港区|中央区|千代田区|品川|池袋|恵比寿|六本木|銀座/
      {<<"u6E0B","u8C37">>, <<"u65B0","u5BBF">>, <<"u6E2F","u533A">>, <<"u4E2D","u592E","u533A">>, <<"u5343","u4EE3","u7530","u533A">>, <<"u54C1","u5DDD">>, <<"u6C60","u888B">>, <<"u6075","u6BD4","u5BFF">>, <<"u516D","u672C","u6728">>, <<"u9280","u5EA7">>} >>],
    \* 東京 近郊（23区外・近郊）
    [key |-> "tokyo_suburb", label |-> "label_tokyo_suburb", baseRentPerTsubo |-> 25000, patterns |-> <<
      \* /東京都/
      {<<"u6771","u4EAC","u90FD">>},
      \* /立川|町田|八王子|府中|調布|武蔵|多摩/
      {<<"u7ACB","u5DDD">>, <<"u753A","u7530">>, <<"u516B","u738B","u5B50">>, <<"u5E9C","u4E2D">>, <<"u8ABF","u5E03">>, <<"u6B66","u8535">>, <<"u591A","u6469">>} >>],
    \* 大阪 都心（梅田/難波/心斎橋など）
    [key |-> "osaka_core", label |-> "label_osaka_core", baseRentPerTsubo |-> 28000, patterns |-> <<
      \* /大阪府/
      {<<"u5927","u962A","u5E9C">>},
      \* /北区|中央区|西区|天王寺|難波|梅田|心斎橋|本町/
      {<<"u5317","u533A">>, <<"u4E2D","u592E","u533A">>, <<"u897F","u533A">>, <<"u5929","u738B","u5BFA">>, <<"u96E3","u6CE2">>, <<"u6885","u7530">>, <<"u5FC3","u658E","u6A4B">>, <<"u672C","u753A">>} >>],
    \* 大阪 近郊（大阪市外・北摂・東大阪など）
    [key |-> "osaka_suburb", label |-> "label_osaka_suburb", baseRentPerTsubo |-> 20000, patterns |-> <<
      \* /大阪府/
      {<<"u5927","u962A","u5E9C">>},
      \* /吹田|豊中|東大阪|堺|枚方|高槻|守口|八尾/
      {<<"u5439","u7530">>, <<"u8C4A","u4E2D">>, <<"u6771","u5927","u962A">>, <<"u583A">>, <<"u679A","u65B9">>, <<"u9AD8","u69FB">>, <<"u5B88","u53E3">>, <<"u516B","u5C3E">>} >>],
    \* 京都 中心（四条/河原町/烏丸など）
    [key |-> "kyoto_core", label |-> "label_kyoto_core", baseRentPerTsubo |-> 24000, patterns |-> <<
      \* /京都府/
      {<<"u4EAC","u90FD","u5E9C">>},
      \* /中京区|下京区|四条|河原町|烏丸|祇園/
      {<<"u4E2D","u4EAC","u533A">>, <<"u4E0B","u4EAC","u533A">>, <<"u56DB","u6761">>, <<"u6CB3","u539F","u753A">>, <<"u70CF","u4E38">>, <<"u7947","u5712">>} >>],
    \* 名古屋 中心（栄/名駅など）
    [key |-> "nagoya_core", label |-> "label_nagoya_core", baseRentPerTsubo |-> 22000, patterns |-> <<
      \* /愛知県/
      {<<"u611B","u77E5","u770C">>},
      \* /名古屋|栄|名駅|中区/
      {<<"u540D","u53E4","u5C4B">>, <<"u6804">>, <<"u540D","u99C5">>, <<"u4E2D","u533A">>} >>],
    \* 地方都市（駅前・中心街）
    [key |-> "regional_city", label |-> "label_regional_city", baseRentPerTsubo |-> 15000, patterns |-> <<
      \* /奈良県|兵庫県|滋賀県|和歌山県|福岡県|広島県|宮城県|北海道/
      {<<"u5948","u826F","u770C">>, <<"u5175","u5EAB","u770C">>, <<"u6ECB","u8CC0","u770C">>, <<"u548C","u6B4C","u5C71","u770C">>, <<"u798F","u5CA1","u770C">>, <<"u5E83","u5CF6","u770C">>, <<"u5BAE","u57CE","u770C">>, <<"u5317","u6D77","u9053">>} >>],
    \* 郊外・地方（ロードサイド/住宅地寄り）
    [key |-> "rural", label |-> "label_rural", baseRentPerTsubo |-> 9000, patterns |-> <<
      \* /郡|町|村/
      {<<"u90E1">>, <<"u753A">>, <<"u6751">>} >>]
  >>

AreaKey == {AREA_MASTER[i].key : i \in 1..Len(AREA_MASTER)}

STATION_DISTANCE ==
  [walk_1_3 |-> [factor |-> Rat(115, 100)],
   walk_4_7 |-> [factor |-> Num(1)],
   walk_8_12 |-> [factor |-> Rat(9, 10)],
   walk_13_plus |-> [factor |-> Rat(8, 10)],
   unknown |-> [factor |-> Num(1)]]

StationDistanceKey == DOMAIN STATION_DISTANCE

TRADE_AREA ==
  [downtown |-> [factor |-> Rat(12, 10)],
   station_front |-> [factor |-> Rat(11, 10)],
   office |-> [factor |-> Rat(11, 10)],
   residential |-> [factor |-> Rat(95, 100)],
   roadside |-> [factor |-> Rat(9, 10)],
   tourism |-> [factor |-> Rat(125, 100)]]

TradeAreaKey == DOMAIN TRADE_AREA

\* The white space String.prototype.trim removes, among the characters used:
\* U+0020 SPACE and U+3000 IDEOGRAPHIC SPACE.
WhiteSpace == {"u0020", "u3000"}

RECURSIVE trimStart(_)
trimStart(s) ==
  IF s # <<>> /\ Head(s) \in WhiteSpace THEN trimStart(Tail(s)) ELSE s

RECURSIVE trimEnd(_)
trimEnd(s) ==
  IF s # <<>> /\ s[Len(s)] \in WhiteSpace THEN trimEnd(SubSeq(s, 1, Len(s) - 1)) ELSE s

trim(s) == trimEnd(trimStart(s))

\* s contains the literal lit
Includes(s, lit) ==
  \E i \in 1..(Len(s) - Len(lit) + 1) : SubSeq(s, i, i + Len(lit) - 1) = lit

\* RegExp.prototype.test for an alternation of literals
test(re, s) == \E lit \in re : Includes(s, lit)

null == "null"

\* patterns.some((re) => re.test(a))
somePattern(area, a) == \E j \in 1..Len(area.patterns) : test(area.patterns[j], a)

\* for (const area of AREA_MASTER) from the i-th row on
RECURSIVE scanAreaMaster(_, _)
scanAreaMaster(a, i) ==
  IF i > Len(AREA_MASTER) THEN null
  ELSE IF somePattern(AREA_MASTER[i], a) THEN AREA_MASTER[i].key
  ELSE scanAreaMaster(a, i + 1)

detectAreaFromAddress(address) ==
  LET a == trim(address)
  IN  IF a = <<>> THEN null ELSE scanAreaMaster(a, 1)

\* getArea returning the table's first row for every key
getArea_firstRow(key) == AREA_MASTER[1]

getArea(key) ==
  LET found == {i \in 1..Len(AREA_MASTER) : AREA_MASTER[i].key = key}
  IN  IF found # {}
      THEN AREA_MASTER[CHOOSE i \in found : \A j \in found : i <= j]
      ELSE AREA_MASTER[1]

-----------------------------------------------------------------------------
(* Component state *)

presetRates(c) == INDUSTRY_PRESETS[c.industry][c.scenario]

\* area starting at the table's first row
InitialArea_first == AREA_MASTER[1].key

\* useState initial value of area
InitialArea == "regional_city"

\* The state the useState calls construct, before the first commit.  mounted,
\* depsArea, depsPreset and depsRent are React's memory of the three effects'
\* dependency arrays; areaSrc records which code wrote the area last
\* ("initial": useState or Reset, "select": the Select, "detect": the
\* auto-detect effect).
Mount ==
  [address |-> <<>>,
   industry |-> "izakaya",
   scenario |-> "standard",
   unitType |-> "per_person",
   unitPrice |-> Num(6000),
   peoplePerGroup |-> Num(2),
   addGroupsPerDay |-> Num(1),
   seats |-> Num(30),
   adSpend |-> Num(100000),
   daysPerMonth |-> Num(26),
   useBaseline |-> TRUE,
   turnover |-> Num(2),
   occupancy |-> Rat(65, 100),
   autoDetectArea |-> TRUE,
   area |-> InitialArea,
   stationDistance |-> "walk_4_7",
   tradeArea |-> "station_front",
   seatsPerTsubo |-> Num(2),
   autoSetRentRate |-> TRUE,
   manualRates |-> FALSE,
   foodRate |-> INDUSTRY_PRESETS["izakaya"]["standard"].food,
   laborRate |-> INDUSTRY_PRESETS["izakaya"]["standard"].labor,
   rentRate |-> INDUSTRY_PRESETS["izakaya"]["standard"].rent,
   mounted |-> FALSE,
   depsArea |-> <<>>,
   depsPreset |-> <<>>,
   depsRent |-> <<>>,
   areaSrc |-> "initial"]

\* the baseline taking the price of a group for the price of a person
baseline_groupPriceAsPersonPrice(c) ==
  LET ppg == clamp(c.peoplePerGroup, Num(1), Num(20))
      seatsN == clamp(c.seats, Zero, Num(500))
      days == clamp(c.daysPerMonth, Num(1), Num(31))
      pricePerPerson == c.unitPrice
      coversPerDay == Mul(Mul(seatsN, c.occupancy), c.turnover)
      baselineRevenueDaily == Mul(coversPerDay, pricePerPerson)
      baselineRevenueMonthly == Mul(baselineRevenueDaily, days)
  IN  [ppg |-> ppg,
       seatsN |-> seatsN,
       days |-> days,
       pricePerPerson |-> pricePerPerson,
       coversPerDay |-> coversPerDay,
       baselineRevenueDaily |-> baselineRevenueDaily,
       baselineRevenueMonthly |-> baselineRevenueMonthly]

\* the baseline revenue net of the preset's food cost
baseline_netOfFoodCost(c) ==
  LET ppg == clamp(c.peoplePerGroup, Num(1), Num(20))
      seatsN == clamp(c.seats, Zero, Num(500))
      days == clamp(c.daysPerMonth, Num(1), Num(31))
      pricePerPerson ==
        IF c.unitType = "per_person" THEN c.unitPrice ELSE safeDiv(c.unitPrice, ppg)
      coversPerDay == Mul(Mul(seatsN, c.occupancy), c.turnover)
      baselineRevenueDaily ==
        Mul(Mul(coversPerDay, pricePerPerson), Sub(One, presetRates(c).food))
      baselineRevenueMonthly == Mul(baselineRevenueDaily, days)
  IN  [ppg |-> ppg,
       seatsN |-> seatsN,
       days |-> days,
       pricePerPerson |-> pricePerPerson,
       coversPerDay |-> coversPerDay,
       baselineRevenueDaily |-> baselineRevenueDaily,
       baselineRevenueMonthly |-> baselineRevenueMonthly]

\* Seat-based baseline revenue
baseline(c) ==
  LET ppg == clamp(c.peoplePerGroup, Num(1), Num(20))
      seatsN == clamp(c.seats, Zero, Num(500))
      days == clamp(c.daysPerMonth, Num(1), Num(31))
      pricePerPerson ==
        IF c.unitType = "per_person" THEN c.unitPrice ELSE safeDiv(c.unitPrice, ppg)
      coversPerDay == Mul(Mul(seatsN, c.occupancy), c.turnover)
      baselineRevenueDaily == Mul(coversPerDay, pricePerPerson)
      baselineRevenueMonthly == Mul(baselineRevenueDaily, days)
  IN  [ppg |-> ppg,
       seatsN |-> seatsN,
       days |-> days,
       pricePerPerson |-> pricePerPerson,
       coversPerDay |-> coversPerDay,
       baselineRevenueDaily |-> baselineRevenueDaily,
       baselineRevenueMonthly |-> baselineRevenueMonthly]

\* the suggested ratio without its clamp
suggestRentRate_unclamped(estimatedRentMonthly, baselineSales) ==
  IF Lt(Zero, baselineSales) THEN Quot(estimatedRentMonthly, baselineSales) ELSE Zero

\* rentRateSuggested
suggestRentRate(estimatedRentMonthly, baselineSales) ==
  IF Lt(Zero, baselineSales)
  THEN clamp(Quot(estimatedRentMonthly, baselineSales), Zero, Rat(35, 100))
  ELSE Zero

\* Suggest rent from area master
rentSuggestion(c) ==
  LET a == getArea(c.area)
      seatsN == clamp(c.seats, Zero, Num(500))
      spt == clamp(c.seatsPerTsubo, Rat(8, 10), Num(4))
      tsubo == safeDiv(seatsN, spt)
      stationFactor == STATION_DISTANCE[c.stationDistance].factor
      tradeFactor == TRADE_AREA[c.tradeArea].factor
      rentPerTsubo == Mul(Mul(Num(a.baseRentPerTsubo), stationFactor), tradeFactor)
      estimatedRentMonthly == Mul(tsubo, rentPerTsubo)
      baselineSales == baseline(c).baselineRevenueMonthly
      rentRateSuggested == suggestRentRate(estimatedRentMonthly, baselineSales)
  IN  [areaLabel |-> a.label,
       rentPerTsubo |-> rentPerTsubo,
       tsubo |-> tsubo,
       estimatedRentMonthly |-> estimatedRentMonthly,
       rentRateSuggested |-> rentRateSuggested,
       baselineSales |-> baselineSales]

\* the three rates with food and labor exchanged
effectiveRates_swapped(c) ==
  [food |-> clamp(c.laborRate, Zero, Rat(95, 100)),
   labor |-> clamp(c.foodRate, Zero, Rat(95, 100)),
   rent |-> clamp(c.rentRate, Zero, Rat(95, 100))]

\* The rent rate the preset tab formats, and whether it is marked automatic
presetTabRent(c) ==
  IF c.autoSetRentRate /\ ~c.manualRates /\ Lt(Zero, rentSuggestion(c).rentRateSuggested)
  THEN [rate |-> rentSuggestion(c).rentRateSuggested, auto |-> TRUE]
  ELSE [rate |-> presetRates(c).rent, auto |-> FALSE]

\* The food, labor and rent the projection uses
effectiveRates(c) ==
  [food |-> clamp(c.foodRate, Zero, Rat(95, 100)),
   labor |-> clamp(c.laborRate, Zero, Rat(95, 100)),
   rent |-> clamp(c.rentRate, Zero, Rat(95, 100))]

\* the projection with a breakeven that ignores the days per month
normalized_breakevenWithoutDays(c) ==
  LET ppg == baseline(c).ppg
      seatsN == baseline(c).seatsN
      addG == clamp(c.addGroupsPerDay, Zero, Num(200))
      days == baseline(c).days
      food == effectiveRates(c).food
      labor == effectiveRates(c).labor
      rent == effectiveRates(c).rent
      addRevenueDaily ==
        IF c.unitType = "per_person"
        THEN Mul(Mul(c.unitPrice, addG), ppg)
        ELSE Mul(c.unitPrice, addG)
      addRevenueMonthly == Mul(addRevenueDaily, days)
      addGrossProfit == Mul(addRevenueMonthly, Sub(One, food))
      addAfterFL == Mul(addRevenueMonthly, Sub(Sub(One, food), labor))
      addAfterFLR == Mul(addRevenueMonthly, Sub(Sub(Sub(One, food), labor), rent))
      roas == safeDiv(addRevenueMonthly, c.adSpend)
      gpRoas == safeDiv(addGrossProfit, c.adSpend)
      gpPerGroup ==
        IF c.unitType = "per_person"
        THEN Mul(Mul(c.unitPrice, ppg), Sub(One, food))
        ELSE Mul(c.unitPrice, Sub(One, food))
      breakevenGroupsPerDay_Gross == safeDiv(c.adSpend, gpPerGroup)
      baselineRevenueDaily == baseline(c).baselineRevenueDaily
      baselineRevenueMonthly == baseline(c).baselineRevenueMonthly
      baselineFood == Mul(baselineRevenueMonthly, food)
      baselineLabor == Mul(baselineRevenueMonthly, labor)
      baselineRent == Mul(baselineRevenueMonthly, rent)
      baselineOperatingProfitApprox ==
        Sub(Sub(Sub(Sub(baselineRevenueMonthly, baselineFood), baselineLabor),
                baselineRent), c.adSpend)
      fl == Add(food, labor)
      flr == Add(Add(food, labor), rent)
  IN  [ppg |-> ppg,
       seatsN |-> seatsN,
       addG |-> addG,
       days |-> days,
       food |-> food,
       labor |-> labor,
       rent |-> rent,
       addRevenueDaily |-> addRevenueDaily,
       addRevenueMonthly |-> addRevenueMonthly,
       addGrossProfit |-> addGrossProfit,
       addAfterFL |-> addAfterFL,
       addAfterFLR |-> addAfterFLR,
       roas |-> roas,
       gpRoas |-> gpRoas,
       breakevenGroupsPerDay_Gross |-> breakevenGroupsPerDay_Gross,
       coversPerDay |-> baseline(c).coversPerDay,
       baselineRevenueDaily |-> baselineRevenueDaily,
       baselineRevenueMonthly |-> baselineRevenueMonthly,
       baselineFood |-> baselineFood,
       baselineLabor |-> baselineLabor,
       baselineRent |-> baselineRent,
       baselineOperatingProfitApprox |-> baselineOperatingProfitApprox,
       fl |-> fl,
       flr |-> flr]

normalized(c) ==
  LET ppg == baseline(c).ppg
      seatsN == baseline(c).seatsN
      addG == clamp(c.addGroupsPerDay, Zero, Num(200))
      days == baseline(c).days
      food == effectiveRates(c).food
      labor == effectiveRates(c).labor
      rent == effectiveRates(c).rent
      addRevenueDaily ==
        IF c.unitType = "per_person"
        THEN Mul(Mul(c.unitPrice, addG), ppg)
        ELSE Mul(c.unitPrice, addG)
      addRevenueMonthly == Mul(addRevenueDaily, days)
      addGrossProfit == Mul(addRevenueMonthly, Sub(One, food))
      addAfterFL == Mul(addRevenueMonthly, Sub(Sub(One, food), labor))
      addAfterFLR == Mul(addRevenueMonthly, Sub(Sub(Sub(One, food), labor), rent))
      roas == safeDiv(addRevenueMonthly, c.adSpend)
      gpRoas == safeDiv(addGrossProfit, c.adSpend)
      gpPerGroup ==
        IF c.unitType = "per_person"
        THEN Mul(Mul(c.unitPrice, ppg), Sub(One, food))
        ELSE Mul(c.unitPrice, Sub(One, food))
      breakevenGroupsPerDay_Gross == safeDiv(c.adSpend, Mul(gpPerGroup, days))
      baselineRevenueDaily == baseline(c).baselineRevenueDaily
      baselineRevenueMonthly == baseline(c).baselineRevenueMonthly
      baselineFood == Mul(baselineRevenueMonthly, food)
      baselineLabor == Mul(baselineRevenueMonthly, labor)
      baselineRent == Mul(baselineRevenueMonthly, rent)
      baselineOperatingProfitApprox ==
        Sub(Sub(Sub(Sub(baselineRevenueMonthly, baselineFood), baselineLabor),
                baselineRent), c.adSpend)
      fl == Add(food, labor)
      flr == Add(Add(food, labor), rent)
  IN  [ppg |-> ppg,
       seatsN |-> seatsN,
       addG |-> addG,
       days |-> days,
       food |-> food,
       labor |-> labor,
       rent |-> rent,
       addRevenueDaily |-> addRevenueDaily,
       addRevenueMonthly |-> addRevenueMonthly,
       addGrossProfit |-> addGrossProfit,
       addAfterFL |-> addAfterFL,
       addAfterFLR |-> addAfterFLR,
       roas |-> roas,
       gpRoas |-> gpRoas,
       breakevenGroupsPerDay_Gross |-> breakevenGroupsPerDay_Gross,
       coversPerDay |-> baseline(c).coversPerDay,
       baselineRevenueDaily |-> baselineRevenueDaily,
       baselineRevenueMonthly |-> baselineRevenueMonthly,
       baselineFood |-> baselineFood,
       baselineLabor |-> baselineLabor,
       baselineRent |-> baselineRent,
       baselineOperatingProfitApprox |-> baselineOperatingProfitApprox,
       fl |-> fl,
       flr |-> flr]

-----------------------------------------------------------------------------
(* Effects.  Each effect reads the render r it closes over and adds its    *)
(* setState calls to the queued state q.                                   *)

\* Auto-detect area from address
areaEffect(r, q) ==
  IF ~r.autoDetectArea THEN q
  ELSE LET detected == detectAreaFromAddress(r.address)
       IN  IF detected # null
           THEN [q EXCEPT !.area = detected, !.areaSrc = "detect"]
           ELSE q

\* Sync preset -> local rates when industry/scenario changes (if not manual)
presetEffect(r, q) ==
  IF ~r.manualRates
  THEN [q EXCEPT !.foodRate = presetRates(r).food,
                 !.laborRate = presetRates(r).labor,
                 !.rentRate =
                    IF r.autoSetRentRate /\ Lt(Zero, rentSuggestion(r).rentRateSuggested)
                    THEN rentSuggestion(r).rentRateSuggested
                    ELSE presetRates(r).rent]
  ELSE q

\* the auto-apply effect without its manualRates guard
rentEffect_ignoresManual(r, q) ==
  IF ~r.autoSetRentRate THEN q
  ELSE IF Le(rentSuggestion(r).rentRateSuggested, Zero) THEN q
  ELSE [q EXCEPT !.rentRate = rentSuggestion(r).rentRateSuggested]

\* Whenever the rent suggestion changes, optionally auto-apply it
rentEffect(r, q) ==
  IF ~r.autoSetRentRate THEN q
  ELSE IF r.manualRates THEN q
  ELSE IF Le(rentSuggestion(r).rentRateSuggested, Zero) THEN q
  ELSE [q EXCEPT !.rentRate = rentSuggestion(r).rentRateSuggested]

\* The dependency arrays of the three effects in render c
areaDeps(c) == <<c.address, c.autoDetectArea>>

presetDeps(c) == <<c.industry, c.scenario>>

\* the auto-apply effect's dependency array without manualRates
rentDeps_withoutManualRates(c) ==
  <<c.autoSetRentRate, rentSuggestion(c).rentRateSuggested>>

rentDeps(c) == <<c.autoSetRentRate, c.manualRates, rentSuggestion(c).rentRateSuggested>>

\* An effect runs after the first render and after a render in which its
\* dependency array differs from the one of the previous render.
areaFires(c) == ~c.mounted \/ c.depsArea # areaDeps(c)

presetFires(c) == ~c.mounted \/ c.depsPreset # presetDeps(c)

rentFires(c) == ~c.mounted \/ c.depsRent # rentDeps(c)

\* No effect is pending: the component shows a finished calculation.
Settled(c) == ~areaFires(c) /\ ~presetFires(c) /\ ~rentFires(c)

\* One commit: the pending effects in declaration order, applied as a batch.
commit(c) ==
  LET q1 == IF areaFires(c) THEN areaEffect(c, c) ELSE c
      q2 == IF presetFires(c) THEN presetEffect(c, q1) ELSE q1
      q3 == IF rentFires(c) THEN rentEffect(c, q2) ELSE q2
  IN  [q3 EXCEPT !.mounted = TRUE,
                 !.depsArea = areaDeps(c),
                 !.depsPreset = presetDeps(c),
                 !.depsRent = rentDeps(c)]

-----------------------------------------------------------------------------
(* Inputs the handlers are tried with *)

\* the empty address, 東京都渋谷区 and 天理市
AddressInputs ==
  {<<>>,
   <<"u6771","u4EAC","u90FD","u6E0B","u8C37","u533A">>,
   <<"u5929","u7406","u5E02">>}

IndustryInputs == {"izakaya", "takeout"}

ScenarioInputs == {"standard", "high"}

AreaInputs == {"tokyo_core", "regional_city", "rural"}

StationDistanceInputs == {"walk_1_3", "walk_4_7"}

TradeAreaInputs == {"station_front", "roadside"}

PeoplePerGroupInputs == {Num(2), Num(4)}

DaysInputs == {Num(26), Num(30)}

TurnoverInputs == {Num(2), Num(3)}

OccupancyInputs == {Rat(65, 100), Rat(85, 100)}

SeatsPerTsuboInputs == {Rat(16, 10), Num(2)}

\* Number(e.target.value) for the text typed into a numeric Input
UnitPriceTyped == {Num(6000), Num(100), Zero, Num(-500), NaN}

AddGroupsTyped == {Num(1), Num(300), PosInf}

SeatsTyped == {Num(30), Zero, Num(600)}

AdSpendTyped == {Num(100000), Zero}

RateTyped == {Rat(1, 2), Rat(3, 2), Num(-1)}

-----------------------------------------------------------------------------
(* Handlers: the states one invocation of a handler can leave from c *)

setAddress(c) == {[c EXCEPT !.address = v] : v \in AddressInputs}

setIndustry(c) == {[c EXCEPT !.industry = v] : v \in IndustryInputs}

setScenario(c) == {[c EXCEPT !.scenario = v] : v \in ScenarioInputs}

setUnitType(c) == {[c EXCEPT !.unitType = v] : v \in UnitType}

setUnitPrice(c) == {[c EXCEPT !.unitPrice = numOr0(v)] : v \in UnitPriceTyped}

setPeoplePerGroup(c) == {[c EXCEPT !.peoplePerGroup = v] : v \in PeoplePerGroupInputs}

setAddGroupsPerDay(c) == {[c EXCEPT !.addGroupsPerDay = numOr0(v)] : v \in AddGroupsTyped}

setSeats(c) == {[c EXCEPT !.seats = numOr0(v)] : v \in SeatsTyped}

setAdSpend(c) == {[c EXCEPT !.adSpend = numOr0(v)] : v \in AdSpendTyped}

setDaysPerMonth(c) == {[c EXCEPT !.daysPerMonth = v] : v \in DaysInputs}

setUseBaseline(c) == {[c EXCEPT !.useBaseline = ~c.useBaseline]}

\* The occupancy and turnover selects are rendered only under useBaseline.
setOccupancy(c) ==
  IF c.useBaseline THEN {[c EXCEPT !.occupancy = v] : v \in OccupancyInputs} ELSE {}

setTurnover(c) ==
  IF c.useBaseline THEN {[c EXCEPT !.turnover = v] : v \in TurnoverInputs} ELSE {}

setAutoDetectArea(c) == {[c EXCEPT !.autoDetectArea = ~c.autoDetectArea]}

setArea(c) == {[c EXCEPT !.area = v, !.areaSrc = "select"] : v \in AreaInputs}

setStationDistance(c) == {[c EXCEPT !.stationDistance = v] : v \in StationDistanceInputs}

setTradeArea(c) == {[c EXCEPT !.tradeArea = v] : v \in TradeAreaInputs}

setSeatsPerTsubo(c) == {[c EXCEPT !.seatsPerTsubo = v] : v \in SeatsPerTsuboInputs}

setAutoSetRentRate(c) == {[c EXCEPT !.autoSetRentRate = ~c.autoSetRentRate]}

setManualRates(c) == {[c EXCEPT !.manualRates = ~c.manualRates]}

\* The three rate Inputs are disabled unless manualRates.
setFoodRate(c) ==
  IF c.manualRates THEN {[c EXCEPT !.foodRate = numOr0(v)] : v \in RateTyped} ELSE {}

setLaborRate(c) ==
  IF c.manualRates THEN {[c EXCEPT !.laborRate = numOr0(v)] : v \in RateTyped} ELSE {}

setRentRate(c) ==
  IF c.manualRates THEN {[c EXCEPT !.rentRate = numOr0(v)] : v \in RateTyped} ELSE {}

\* The Reset button
reset(c) ==
  {[c EXCEPT !.address = <<>>,
             !.industry = "izakaya",
             !.scenario = "standard",
             !.unitType = "per_person",
             !.unitPrice = Num(6000),
             !.peoplePerGroup = Num(2),
             !.addGroupsPerDay = Num(1),
             !.seats = Num(30),
             !.adSpend = Num(100000),
             !.daysPerMonth = Num(26),
             !.useBaseline = TRUE,
             !.turnover = Num(2),
             !.occupancy = Rat(65, 100),
             !.autoDetectArea = TRUE,
             !.area = "regional_city",
             !.areaSrc = "initial",
             !.stationDistance = "walk_4_7",
             !.tradeArea = "station_front",
             !.seatsPerTsubo = Num(2),
             !.autoSetRentRate = TRUE,
             !.manualRates = FALSE]}

\* Every state some handler can leave from c
handlers(c) ==
  setAddress(c) \cup setIndustry(c) \cup setScenario(c) \cup setUnitType(c)
    \cup setUnitPrice(c) \cup setPeoplePerGroup(c) \cup setAddGroupsPerDay(c)
    \cup setSeats(c) \cup setAdSpend(c) \cup setDaysPerMonth(c)
    \cup setUseBaseline(c) \cup setOccupancy(c) \cup setTurnover(c)
    \cup setAutoDetectArea(c) \cup setArea(c) \cup setStationDistance(c)
    \cup setTradeArea(c) \cup setSeatsPerTsubo(c) \cup setAutoSetRentRate(c)
    \cup setManualRates(c) \cup setFoodRate(c) \cup setLaborRate(c)
    \cup setRentRate(c) \cup reset(c)

-----------------------------------------------------------------------------
(* The component: handlers run between commits, on a settled component *)

NoCall == [fn |-> "none", args |-> <<>>, ret |-> <<>>, done |-> FALSE]

Init == ui = Mount /\ ui2 = Mount /\ nOps = 0 /\ call = NoCall

\* One handler invocation that changes the state
UserOp(next) ==
  /\ nOps < MaxOps
  /\ Settled(ui)
  /\ \E d \in next : d # ui /\ ui' = d
  /\ nOps' = nOps + 1
  /\ UNCHANGED <<ui2, call>>

RunEffects ==
  /\ ~Settled(ui)
  /\ ui' = commit(ui)
  /\ UNCHANGED <<ui2, nOps, call>>

SetAddress == UserOp(setAddress(ui))
SetIndustry == UserOp(setIndustry(ui))
SetScenario == UserOp(setScenario(ui))
SetUnitType == UserOp(setUnitType(ui))
SetUnitPrice == UserOp(setUnitPrice(ui))
SetPeoplePerGroup == UserOp(setPeoplePerGroup(ui))
SetAddGroupsPerDay == UserOp(setAddGroupsPerDay(ui))
SetSeats == UserOp(setSeats(ui))
SetAdSpend == UserOp(setAdSpend(ui))
SetDaysPerMonth == UserOp(setDaysPerMonth(ui))
SetUseBaseline == UserOp(setUseBaseline(ui))
SetOccupancy == UserOp(setOccupancy(ui))
SetTurnover == UserOp(setTurnover(ui))
SetAutoDetectArea == UserOp(setAutoDetectArea(ui))
SetArea == UserOp(setArea(ui))
SetStationDistance == UserOp(setStationDistance(ui))
SetTradeArea == UserOp(setTradeArea(ui))
SetSeatsPerTsubo == UserOp(setSeatsPerTsubo(ui))
SetAutoSetRentRate == UserOp(setAutoSetRentRate(ui))
SetManualRates == UserOp(setManualRates(ui))
SetFoodRate == UserOp(setFoodRate(ui))
SetLaborRate == UserOp(setLaborRate(ui))
SetRentRate == UserOp(setRentRate(ui))
Reset == UserOp(reset(ui))

Next ==
  \/ RunEffects
  \/ SetAddress
  \/ SetIndustry
  \/ SetScenario
  \/ SetUnitType
  \/ SetUnitPrice
  \/ SetPeoplePerGroup
  \/ SetAddGroupsPerDay
  \/ SetSeats
  \/ SetAdSpend
  \/ SetDaysPerMonth
  \/ SetUseBaseline
  \/ SetOccupancy
  \/ SetTurnover
  \/ SetAutoDetectArea
  \/ SetArea
  \/ SetStationDistance
  \/ SetTradeArea
  \/ SetSeatsPerTsubo
  \/ SetAutoSetRentRate
  \/ SetManualRates
  \/ SetFoodRate
  \/ SetLaborRate
  \/ SetRentRate
  \/ Reset

Spec == Init /\ [][Next]_vars

-----------------------------------------------------------------------------
(* Two components side by side: ui and an independent second instance ui2. *)
(* The two share nothing and MaxOps bounds the handler invocations of both  *)
(* together.  ui is operated first and gets at most half of them: a pair   *)
(* of states reached with more is the mirror image of one that is covered. *)

TwinOp ==
  /\ nOps < MaxOps
  /\ Settled(ui)
  /\ Settled(ui2)
  /\ \E d \in handlers(ui2) : d # ui2 /\ ui2' = d
  /\ nOps' = nOps + 1
  /\ UNCHANGED <<ui, call>>

TwinRunEffects ==
  /\ Settled(ui)
  /\ ~Settled(ui2)
  /\ ui2' = commit(ui2)
  /\ UNCHANGED <<ui, nOps, call>>

\* ui2 has not been operated yet
TwinFresh == ui2 \in {Mount, commit(Mount)}

FirstOp == 2 * (nOps + 1) <= MaxOps /\ TwinFresh /\ UserOp(handlers(ui))

NextPair ==
  \/ RunEffects
  \/ FirstOp
  \/ TwinRunEffects
  \/ TwinOp

SpecPair == Init /\ [][NextPair]_vars

-----------------------------------------------------------------------------
(* The pure functions, applied to enumerated arguments *)

\* 東京都 大阪府 京都府 愛知県 奈良県 中央区 中京区 渋谷 立川 吹田 梅田 栄 市,
\* and a space
Fragments ==
  {<<"u6771","u4EAC","u90FD">>,
   <<"u5927","u962A","u5E9C">>,
   <<"u4EAC","u90FD","u5E9C">>,
   <<"u611B","u77E5","u770C">>,
   <<"u5948","u826F","u770C">>,
   <<"u4E2D","u592E","u533A">>,
   <<"u4E2D","u4EAC","u533A">>,
   <<"u6E0B","u8C37">>,
   <<"u7ACB","u5DDD">>,
   <<"u5439","u7530">>,
   <<"u6885","u7530">>,
   <<"u6804">>,
   <<"u5E02">>,
   <<"u0020">>}

\* The addresses made of at most k fragments
RECURSIVE AddressesOf(_)
AddressesOf(k) ==
  IF k = 0 THEN {<<>>}
  ELSE LET shorter == AddressesOf(k - 1)
       IN  shorter \cup {s \o f : s \in shorter, f \in Fragments}

Addresses == AddressesOf(MaxFrags)

Numbers ==
  {NaN, PosInf, NegInf, Zero, One, Num(-3), Rat(1, 2), Rat(-7, 4), Num(26), Num(6000)}

\* Component states with every combination of the listed inputs
InputRecords ==
  {[Mount EXCEPT !.unitType = ut, !.unitPrice = up, !.seats = se, !.adSpend = ad,
                 !.peoplePerGroup = pg, !.area = ar, !.foodRate = fr,
                 !.laborRate = lr, !.addGroupsPerDay = ag] :
     ut \in UnitType,
     up \in {Num(6000), Num(100), Zero, Num(-500)},
     se \in {Num(30), Zero, Num(600)},
     ad \in {Num(100000), Zero},
     pg \in {Num(2), Num(4)},
     ar \in {"tokyo_core", "regional_city"},
     fr \in {Rat(30, 100), Rat(3, 2), Num(-1)},
     lr \in {Rat(30, 100), Rat(3, 2)},
     ag \in {Num(1), Num(300)}}

\* Component states with every tier, station distance, trade area and seats
\* per tsubo the Selects offer
RentInputRecords ==
  {[Mount EXCEPT !.area = ar, !.stationDistance = sd, !.tradeArea = ta,
                 !.seats = se, !.seatsPerTsubo = sp] :
     ar \in AreaKey,
     sd \in StationDistanceKey,
     ta \in TradeAreaKey,
     se \in {Num(30), Zero, Num(600)},
     sp \in SEATS_PER_TSUBO_OPTIONS}

Calls ==
  {[fn |-> "safeDiv", args |-> <<a, b>>, ret |-> <<>>, done |-> FALSE] :
     a \in Numbers, b \in Numbers}
  \cup {[fn |-> "detectAreaFromAddress", args |-> <<a>>, ret |-> <<>>, done |-> FALSE] :
          a \in Addresses}
  \cup {[fn |-> "compute", args |-> <<c>>, ret |-> <<>>, done |-> FALSE] :
          c \in InputRecords \cup RentInputRecords}

InitFn == ui = Mount /\ ui2 = Mount /\ nOps = 0 /\ call \in Calls

CallSafeDiv ==
  /\ call.fn = "safeDiv" /\ ~call.done
  /\ call' = [call EXCEPT !.ret = safeDiv(call.args[1], call.args[2]), !.done = TRUE]
  /\ UNCHANGED <<ui, ui2, nOps>>

CallDetectArea ==
  /\ call.fn = "detectAreaFromAddress" /\ ~call.done
  /\ call' = [call EXCEPT !.ret = detectAreaFromAddress(call.args[1]), !.done = TRUE]
  /\ UNCHANGED <<ui, ui2, nOps>>

\* One render of the component in state call.args[1]: the three memos
CallCompute ==
  /\ call.fn = "compute" /\ ~call.done
  /\ call' = [call EXCEPT !.ret = [baseline |-> baseline(call.args[1]),
                                   rentSuggestion |-> rentSuggestion(call.args[1]),
                                   normalized |-> normalized(call.args[1])],
                          !.done = TRUE]
  /\ UNCHANGED <<ui, ui2, nOps>>

NextFn == CallSafeDiv \/ CallDetectArea \/ CallCompute

SpecFn == InitFn /\ [][NextFn]_vars

-----------------------------------------------------------------------------
(* Claims *)

suggested(c) == rentSuggestion(c).rentRateSuggested

\* C1: in every settled state with manualRates off, the food and labor rates
\* the projection uses are the preset table's entry for the current industry
\* and scenario.
C1_AutoFoodLaborArePreset ==
  (Settled(ui) /\ ~ui.manualRates) =>
    /\ effectiveRates(ui).food = presetRates(ui).food
    /\ effectiveRates(ui).labor = presetRates(ui).labor

\* C2: in every settled state with manualRates off and either autoSetRentRate
\* off or a suggested rent ratio of 0, the rent rate the projection uses is the
\* preset table's rent for the current industry and scenario.
C2_AutoRentFallsBackToPreset ==
  (/\ Settled(ui)
   /\ ~ui.manualRates
   /\ (~ui.autoSetRentRate \/ suggested(ui) = Zero)) =>
    effectiveRates(ui).rent = presetRates(ui).rent

\* C3: in every settled state with manualRates off, autoSetRentRate on and a
\* suggested rent ratio above 0, the rent rate the projection uses is the
\* current suggested rent ratio.
C3_AutoRentIsSuggestion ==
  (/\ Settled(ui)
   /\ ~ui.manualRates
   /\ ui.autoSetRentRate
   /\ Lt(Zero, suggested(ui))) =>
    effectiveRates(ui).rent = suggested(ui)

\* C3 witness: a settled automatic state, reached by handlers, whose suggestion
\* differs from the one at mount and from the preset rent.
C3_Witness ==
  /\ Settled(ui)
  /\ nOps > 0
  /\ ~ui.manualRates
  /\ ui.autoSetRentRate
  /\ Lt(Zero, suggested(ui))
  /\ suggested(ui) # suggested(Mount)
  /\ suggested(ui) # presetRates(ui).rent
  /\ effectiveRates(ui).rent = suggested(ui)

\* C4: while manualRates stays on, only the three rate Inputs change foodRate,
\* laborRate and rentRate, and so the rates the projection uses (each clamped
\* to [0, 0.95]): no other handler and no effect overwrites them, whatever
\* autoSetRentRate is.
C4_ManualRatesAreKept ==
  [][(ui.manualRates /\ ui'.manualRates) =>
       \/ /\ ui'.foodRate = ui.foodRate
          /\ ui'.laborRate = ui.laborRate
          /\ ui'.rentRate = ui.rentRate
          /\ effectiveRates(ui') = effectiveRates(ui)
       \/ ui' \in setFoodRate(ui) \cup setLaborRate(ui) \cup setRentRate(ui)]_vars

\* C4 witness: manualRates on, a typed rent rate above the clamp, and then a
\* change of industry with autoSetRentRate on and a positive suggestion; the
\* projection uses the typed rate clamped to 0.95.
C4_Witness ==
  /\ Settled(ui)
  /\ ui.manualRates
  /\ ui.autoSetRentRate
  /\ ui.rentRate = Rat(3, 2)
  /\ ui.industry # Mount.industry
  /\ Lt(Zero, suggested(ui))
  /\ effectiveRates(ui).rent = Rat(95, 100)

\* The inputs C5 lists
rateInputs(c) ==
  <<c.industry, c.scenario, c.autoSetRentRate, c.area, c.stationDistance,
    c.tradeArea, c.seats, c.seatsPerTsubo, c.unitType, c.unitPrice,
    c.peoplePerGroup, c.daysPerMonth, c.occupancy, c.turnover>>

\* C5: two components that are settled with manualRates off and agree on
\* every listed input use the same food, labor and rent rates, whatever
\* handlers each has run.
C5_RatesAreHistoryIndependent ==
  (/\ Settled(ui)
   /\ Settled(ui2)
   /\ ~ui.manualRates
   /\ ~ui2.manualRates
   /\ rateInputs(ui) = rateInputs(ui2)) =>
    effectiveRates(ui) = effectiveRates(ui2)

\* C6: in every settled state with autoDetectArea on and an address that
\* matches some tier, the tier the rent estimate uses is the tier resolved
\* from the address.
C6_AutoDetectOverridesSelection ==
  (/\ Settled(ui)
   /\ ui.autoDetectArea
   /\ detectAreaFromAddress(ui.address) # null) =>
    getArea(ui.area).key = detectAreaFromAddress(ui.address)

\* The rows of AREA_MASTER one of whose patterns matches s
matchingRows(s) ==
  {i \in 1..Len(AREA_MASTER) :
     \E j \in 1..Len(AREA_MASTER[i].patterns) :
       \E lit \in AREA_MASTER[i].patterns[j] : Includes(s, lit)}

\* The central tiers: the first pattern of each is its prefecture's name, the
\* second the names of its central wards and districts.
coreRows ==
  {i \in 1..Len(AREA_MASTER) :
     AREA_MASTER[i].key \in {"tokyo_core", "osaka_core", "kyoto_core", "nagoya_core"}}

\* C7: detectAreaFromAddress returns null for an empty or white-space-only
\* address, otherwise the key of the first row of AREA_MASTER one of whose
\* patterns matches, and null if none does; and an address that contains a
\* prefecture's name and one of that prefecture's central ward names resolves
\* to that prefecture's core tier.
C7_DetectFirstMatch ==
  (call.fn = "detectAreaFromAddress" /\ call.done) =>
    LET address == call.args[1]
        blank == \A k \in 1..Len(address) : address[k] \in WhiteSpace
        rows == matchingRows(address)
    IN  /\ blank => call.ret = null
        /\ (~blank /\ rows = {}) => call.ret = null
        /\ (~blank /\ rows # {}) =>
             \E i \in rows : /\ \A j \in rows : i <= j
                             /\ call.ret = AREA_MASTER[i].key
        /\ \A i \in coreRows :
             (/\ test(AREA_MASTER[i].patterns[1], address)
              /\ test(AREA_MASTER[i].patterns[2], address)) =>
               call.ret = AREA_MASTER[i].key

\* C8 as stated: the resolved tier is exactly one row of the table, and it is
\* the table's first row when the address matches no tier and the area does
\* not come from the Select.
C8_FallsBackToFirstRow ==
  /\ Cardinality({i \in 1..Len(AREA_MASTER) : AREA_MASTER[i] = getArea(ui.area)}) = 1
  /\ (detectAreaFromAddress(ui.address) = null /\ ui.areaSrc # "select") =>
       getArea(ui.area) = AREA_MASTER[1]

\* C8 as amended: the resolved tier is exactly one row of the table, the row
\* whose key is the area state; and while neither the auto-detect effect nor
\* the Select has written the area since mount or the last Reset, it is the
\* regional_city row.
C8_DefaultTierIsRegionalCity ==
  /\ Cardinality({i \in 1..Len(AREA_MASTER) : AREA_MASTER[i] = getArea(ui.area)}) = 1
  /\ getArea(ui.area).key = ui.area
  /\ ui.areaSrc = "initial" => getArea(ui.area).key = "regional_city"

\* C8 witness: a settled state with a non-empty address that matches no tier
\* and an area nothing has written.
C8_Witness ==
  /\ Settled(ui)
  /\ nOps > 0
  /\ ui.address # <<>>
  /\ detectAreaFromAddress(ui.address) = null
  /\ ui.areaSrc = "initial"
  /\ getArea(ui.area).key = "regional_city"

\* C9: the suggested rent ratio lies in [0, 0.35]; it is 0.35 when the
\* baseline monthly revenue is positive and the estimated rent exceeds 0.35 of
\* it; it is 0 when the baseline monthly revenue is not positive.
C9_SuggestedRatioClamped ==
  (call.fn = "compute" /\ call.done) =>
    LET sales == call.ret.baseline.baselineRevenueMonthly
        estimated == call.ret.rentSuggestion.estimatedRentMonthly
        ratio == call.ret.rentSuggestion.rentRateSuggested
    IN  /\ IsFinite(ratio)
        /\ Le(Zero, ratio)
        /\ Le(ratio, Rat(35, 100))
        /\ (Lt(Zero, sales) /\ Lt(Mul(Rat(35, 100), sales), estimated)) =>
             ratio = Rat(35, 100)
        /\ Le(sales, Zero) => ratio = Zero

\* C9 witness: a positive baseline revenue with an estimated rent above 0.35 of
\* it.
C9_Witness ==
  /\ call.fn = "compute"
  /\ call.done
  /\ Lt(Zero, call.ret.baseline.baselineRevenueMonthly)
  /\ Lt(Mul(Rat(35, 100), call.ret.baseline.baselineRevenueMonthly),
        call.ret.rentSuggestion.estimatedRentMonthly)
  /\ call.ret.rentSuggestion.rentRateSuggested = Rat(35, 100)

\* C10: safeDiv(a, b) is 0 when b is 0 or an operand is not finite, and the
\* quotient a/b otherwise; so roas and gpRoas are 0 when adSpend is 0,
\* pricePerPerson is 0 when the group size it divides by is 0, and the
\* breakeven groups per day are 0 when gross profit per group times days is 0.
C10_SafeDivision ==
  /\ (call.fn = "safeDiv" /\ call.done) =>
       LET a == call.args[1]
           b == call.args[2]
       IN  IF b = Zero \/ ~IsFinite(a) \/ ~IsFinite(b)
           THEN call.ret = Zero
           ELSE IsFinite(call.ret) /\ Mul(call.ret, b) = a
  /\ (call.fn = "compute" /\ call.done) =>
       LET c == call.args[1]
           n == call.ret.normalized
           b == call.ret.baseline
           gpPerGroupDays ==
             Mul(Mul(IF c.unitType = "per_person"
                     THEN Mul(c.unitPrice, n.ppg)
                     ELSE c.unitPrice,
                     Sub(One, n.food)),
                 n.days)
       IN  /\ c.adSpend = Zero => (n.roas = Zero /\ n.gpRoas = Zero)
           /\ (c.unitType = "per_group" /\ b.ppg = Zero) => b.pricePerPerson = Zero
           /\ gpPerGroupDays = Zero => n.breakevenGroupsPerDay_Gross = Zero

\* C10 witness: a finite non-zero number divided by 0.
C10_Witness ==
  /\ call.fn = "safeDiv"
  /\ call.done
  /\ call.args[2] = Zero
  /\ IsFinite(call.args[1])
  /\ call.args[1] # Zero
  /\ call.ret = Zero

\* x moved to the nearest number of the range [lo, hi]
nearest(x, lo, hi) == IF Lt(x, lo) THEN lo ELSE IF Lt(hi, x) THEN hi ELSE x

\* c with every bounded input replaced by the nearest value of its range
clampedInputs(c) ==
  [c EXCEPT !.foodRate = nearest(c.foodRate, Zero, Rat(95, 100)),
            !.laborRate = nearest(c.laborRate, Zero, Rat(95, 100)),
            !.rentRate = nearest(c.rentRate, Zero, Rat(95, 100)),
            !.seats = nearest(c.seats, Zero, Num(500)),
            !.peoplePerGroup = nearest(c.peoplePerGroup, Num(1), Num(20)),
            !.daysPerMonth = nearest(c.daysPerMonth, Num(1), Num(31)),
            !.addGroupsPerDay = nearest(c.addGroupsPerDay, Zero, Num(200)),
            !.seatsPerTsubo = nearest(c.seatsPerTsubo, Rat(8, 10), Num(4))]

\* Everything the component computes from its state in one render
outputs(c) ==
  [baseline |-> baseline(c),
   rentSuggestion |-> rentSuggestion(c),
   normalized |-> normalized(c)]

\* C11: for every input record the outputs computed from the inputs equal the
\* outputs computed from the inputs moved to the nearest bound of their
\* ranges (rates [0, 0.95], seats [0, 500], peoplePerGroup [1, 20],
\* daysPerMonth [1, 31], addGroupsPerDay [0, 200], seatsPerTsubo [0.8, 4.0]),
\* the values the projection uses are those nearest values, and FL <= 1.9.
C11_ClampedBeforeUse ==
  (call.fn = "compute" /\ call.done) =>
    LET c == call.args[1]
        n == call.ret.normalized
    IN  /\ call.ret = outputs(clampedInputs(c))
        /\ n.food = nearest(c.foodRate, Zero, Rat(95, 100))
        /\ n.labor = nearest(c.laborRate, Zero, Rat(95, 100))
        /\ n.rent = nearest(c.rentRate, Zero, Rat(95, 100))
        /\ n.seatsN = nearest(c.seats, Zero, Num(500))
        /\ n.addG = nearest(c.addGroupsPerDay, Zero, Num(200))
        /\ n.ppg = nearest(c.peoplePerGroup, Num(1), Num(20))
        /\ n.days = nearest(c.daysPerMonth, Num(1), Num(31))
        /\ Le(n.fl, Rat(19, 10))

\* C11 witness: food and labor rates of 1.5 used as 0.95 (FL = 1.9) with 600
\* seats used as 500 and 300 groups per day used as 200.
C11_Witness ==
  /\ call.fn = "compute"
  /\ call.done
  /\ call.args[1].foodRate = Rat(3, 2)
  /\ call.args[1].laborRate = Rat(3, 2)
  /\ call.args[1].seats = Num(600)
  /\ call.args[1].addGroupsPerDay = Num(300)
  /\ call.ret.normalized.fl = Rat(19, 10)
  /\ call.ret.normalized.seatsN = Num(500)
  /\ call.ret.normalized.addG = Num(200)

\* C12: for every input record the projection outputs equal the reference
\* formulas over the clamped inputs: daily revenue = unitPrice x groups x
\* (people per group if per_person, else 1); monthly = daily x days; gross
\* profit, after labor and after rent = monthly x (1 - food [- labor [- rent]]);
\* roas and gross-profit roas = monthly and gross profit over adSpend;
\* baseline food, labor and rent = baseline monthly revenue x rate; the
\* operating profit = baseline revenue - the three costs - adSpend; fl and flr
\* are the plain sums.  Scenario 1 gives 312000, 218400, 3.12 and 2.184.
C12_ProjectionFormulas ==
  (call.fn = "compute" /\ call.done) =>
    LET c == call.args[1]
        n == call.ret.normalized
        ppg == nearest(c.peoplePerGroup, Num(1), Num(20))
        addG == nearest(c.addGroupsPerDay, Zero, Num(200))
        days == nearest(c.daysPerMonth, Num(1), Num(31))
        food == nearest(c.foodRate, Zero, Rat(95, 100))
        labor == nearest(c.laborRate, Zero, Rat(95, 100))
        rent == nearest(c.rentRate, Zero, Rat(95, 100))
        daily == Mul(Mul(c.unitPrice, addG), IF c.unitType = "per_person" THEN ppg ELSE One)
        monthly == Mul(daily, days)
        gross == Mul(monthly, Sub(One, food))
        sales == call.ret.baseline.baselineRevenueMonthly
    IN  /\ n.addRevenueDaily = daily
        /\ n.addRevenueMonthly = monthly
        /\ n.addGrossProfit = gross
        /\ n.addAfterFL = Mul(monthly, Sub(One, Add(food, labor)))
        /\ n.addAfterFLR = Mul(monthly, Sub(One, Add(Add(food, labor), rent)))
        /\ c.adSpend # Zero =>
             /\ Mul(n.roas, c.adSpend) = monthly
             /\ Mul(n.gpRoas, c.adSpend) = gross
        /\ n.baselineRevenueMonthly = sales
        /\ n.baselineFood = Mul(sales, food)
        /\ n.baselineLabor = Mul(sales, labor)
        /\ n.baselineRent = Mul(sales, rent)
        /\ n.baselineOperatingProfitApprox =
             Sub(sales, Add(Add(Add(Mul(sales, food), Mul(sales, labor)),
                                Mul(sales, rent)), c.adSpend))
        /\ n.fl = Add(food, labor)
        /\ n.flr = Add(Add(food, labor), rent)
        /\ c = Mount =>
             /\ n.addRevenueMonthly = Num(312000)
             /\ n.addGrossProfit = Num(218400)
             /\ n.roas = Rat(312, 100)
             /\ n.gpRoas = Rat(2184, 1000)

\* C12 witness: scenario 1 has been computed.
C12_Witness ==
  /\ call.fn = "compute"
  /\ call.done
  /\ call.args[1] = Mount
  /\ call.ret.normalized.addRevenueMonthly = Num(312000)
  /\ call.ret.normalized.gpRoas = Rat(2184, 1000)

\* The outputs on which the two ways of pricing must agree
pricingOutputs(o) ==
  [addRevenueDaily |-> o.normalized.addRevenueDaily,
   addRevenueMonthly |-> o.normalized.addRevenueMonthly,
   addGrossProfit |-> o.normalized.addGrossProfit,
   breakevenGroupsPerDay_Gross |-> o.normalized.breakevenGroupsPerDay_Gross,
   pricePerPerson |-> o.baseline.pricePerPerson]

\* The record pricing per person what c prices per group, and the converse
asPerPerson(c) ==
  [c EXCEPT !.unitType = "per_person",
            !.unitPrice = Quot(c.unitPrice, nearest(c.peoplePerGroup, Num(1), Num(20)))]

asPerGroup(c) ==
  [c EXCEPT !.unitType = "per_group",
            !.unitPrice = Mul(c.unitPrice, nearest(c.peoplePerGroup, Num(1), Num(20)))]

\* C13: a record priced per group at p x peoplePerGroup and the record priced
\* per person at p, equal in every other input, give the same daily and
\* monthly incremental revenue, incremental gross profit, breakeven groups
\* per day and baseline price per person.
C13_PerGroupAgreesWithPerPerson ==
  (call.fn = "compute" /\ call.done) =>
    LET c == call.args[1]
    IN  IF c.unitType = "per_group"
        THEN pricingOutputs(call.ret) = pricingOutputs(outputs(asPerPerson(c)))
        ELSE pricingOutputs(call.ret) = pricingOutputs(outputs(asPerGroup(c)))

\* C13 witness: a per-group record at 6000 for 4 people (1500 per person)
\* with a positive breakeven has been computed.
C13_Witness ==
  /\ call.fn = "compute"
  /\ call.done
  /\ call.args[1].unitType = "per_group"
  /\ call.args[1].unitPrice = Num(6000)
  /\ call.args[1].peoplePerGroup = Num(4)
  /\ call.ret.baseline.pricePerPerson = Num(1500)
  /\ Lt(Zero, call.ret.normalized.breakevenGroupsPerDay_Gross)

\* Gross profit of one incremental group, from the clamped inputs
grossProfitPerGroup(c) ==
  Mul(Mul(c.unitPrice,
          IF c.unitType = "per_person"
          THEN nearest(c.peoplePerGroup, Num(1), Num(20))
          ELSE One),
      Sub(One, nearest(c.foodRate, Zero, Rat(95, 100))))

\* C14: for every input record with a positive gross profit per group and a
\* positive adSpend, breakevenGroupsPerDay x gross profit per group x days =
\* adSpend, and the incremental gross profit reaches adSpend (gross-profit
\* roas >= 1) exactly when the groups per day used in the projection are at
\* least breakevenGroupsPerDay.  Scenario 1 (8400 per group, 26 days, adSpend
\* 100000) gives 100000 / 218400.
C14_BreakevenRecoupsAdSpend ==
  (call.fn = "compute" /\ call.done) =>
    LET c == call.args[1]
        n == call.ret.normalized
        gp == grossProfitPerGroup(c)
    IN  /\ (Lt(Zero, gp) /\ Lt(Zero, c.adSpend)) =>
             /\ Mul(Mul(n.breakevenGroupsPerDay_Gross, gp), n.days) = c.adSpend
             /\ Le(c.adSpend, n.addGrossProfit) <=> Le(n.breakevenGroupsPerDay_Gross, n.addG)
             /\ Le(One, n.gpRoas) <=> Le(n.breakevenGroupsPerDay_Gross, n.addG)
        /\ c = Mount =>
             /\ gp = Num(8400)
             /\ n.breakevenGroupsPerDay_Gross = Rat(100000, 218400)

\* C14 witness: a record whose groups per day stay below the breakeven (gross
\* profit below adSpend).
C14_Witness ==
  /\ call.fn = "compute"
  /\ call.done
  /\ Lt(Zero, grossProfitPerGroup(call.args[1]))
  /\ Lt(Zero, call.args[1].adSpend)
  /\ Lt(call.ret.normalized.addG, call.ret.normalized.breakevenGroupsPerDay_Gross)
  /\ Lt(call.ret.normalized.addGrossProfit, call.args[1].adSpend)

\* The inputs of the baseline estimate
baselineInputs(c) ==
  <<c.peoplePerGroup, c.seats, c.daysPerMonth, c.unitType, c.unitPrice,
    c.occupancy, c.turnover>>

\* The cost-ratio side of the state
costRatios(c) ==
  <<c.industry, c.scenario, c.manualRates, c.autoSetRentRate,
    c.foodRate, c.laborRate, c.rentRate>>

\* C15: in every reachable state coversPerDay = seats x occupancy x turnover
\* (seats clamped), pricePerPerson = unitPrice, or unitPrice / peoplePerGroup
\* when per_group, dailyRevenue = coversPerDay x pricePerPerson and
\* monthlyRevenue = dailyRevenue x daysPerMonth; and no step that leaves the
\* baseline's own inputs alone - a change of industry, scenario, manualRates,
\* autoSetRentRate or a rate, or a run of the effects - changes any field of
\* the baseline.
C15_BaselineIndependentOfRates ==
  /\ [](LET b == baseline(ui)
            seatsN == nearest(ui.seats, Zero, Num(500))
            ppg == nearest(ui.peoplePerGroup, Num(1), Num(20))
            days == nearest(ui.daysPerMonth, Num(1), Num(31))
        IN  /\ b.coversPerDay = Mul(Mul(seatsN, ui.occupancy), ui.turnover)
            /\ IF ui.unitType = "per_person"
               THEN b.pricePerPerson = ui.unitPrice
               ELSE Mul(b.pricePerPerson, ppg) = ui.unitPrice
            /\ b.baselineRevenueDaily = Mul(b.coversPerDay, b.pricePerPerson)
            /\ b.baselineRevenueMonthly = Mul(b.baselineRevenueDaily, days))
  /\ [][baselineInputs(ui') = baselineInputs(ui) => baseline(ui') = baseline(ui)]_vars

\* C15 witness: industry, manualRates and the food rate have been changed and
\* the effects have run, and the baseline is the one of the initial inputs.
C15_Witness ==
  /\ Settled(ui)
  /\ costRatios(ui) # costRatios(commit(Mount))
  /\ ui.industry = "takeout"
  /\ ui.manualRates
  /\ ui.foodRate = Rat(1, 2)
  /\ baselineInputs(ui) = baselineInputs(Mount)
  /\ baseline(ui) = baseline(Mount)
  /\ Lt(Zero, baseline(ui).baselineRevenueMonthly)

\* C16: in every reachable state, whatever the user typed as unitPrice,
\* pricePerPerson, coversPerDay, dailyRevenue and monthlyRevenue of the
\* baseline are finite and not negative.
C16_BaselineNeverNegative ==
  LET b == baseline(ui)
  IN  \A x \in {b.pricePerPerson, b.coversPerDay, b.baselineRevenueDaily,
                b.baselineRevenueMonthly} :
        IsFinite(x) /\ Le(Zero, x)

\* Every input of the component except occupancy and turnover
inputsExceptOccupancyTurnover(c) ==
  <<c.address, c.industry, c.scenario, c.unitType, c.unitPrice, c.peoplePerGroup,
    c.addGroupsPerDay, c.seats, c.adSpend, c.daysPerMonth, c.useBaseline,
    c.autoDetectArea, c.area, c.stationDistance, c.tradeArea, c.seatsPerTsubo,
    c.autoSetRentRate, c.manualRates>>

\* C17: two settled components with useBaseline off that agree on every input
\* except occupancy and turnover have the same suggested rent ratio, the same
\* effective rent rate and the same projection outputs.
C17_OccupancyTurnoverUnusedWithoutBaseline ==
  (/\ Settled(ui)
   /\ Settled(ui2)
   /\ ~ui.useBaseline
   /\ ~ui2.useBaseline
   /\ inputsExceptOccupancyTurnover(ui) = inputsExceptOccupancyTurnover(ui2)) =>
    /\ suggested(ui) = suggested(ui2)
    /\ effectiveRates(ui).rent = effectiveRates(ui2).rent
    /\ normalized(ui) = normalized(ui2)

\* The rows of the table whose key is the area state: the resolved tier
tierRows(c) == {i \in 1..Len(AREA_MASTER) : AREA_MASTER[i].key = c.area}

\* C18: for every tier, station distance, trade area, seats and seats per
\* tsubo, the rent estimate is areaSize = clamp(seats, 0, 500) /
\* clamp(seatsPerTsubo, 0.8, 4.0), rentPerAreaUnit = the tier's base rent x
\* the station-distance factor x the trade-area factor, estimatedMonthlyRent =
\* areaSize x rentPerAreaUnit, and areaLabel is the tier's label.
C18_RentEstimateFormulas ==
  (call.fn = "compute" /\ call.done) =>
    LET c == call.args[1]
        r == call.ret.rentSuggestion
        seatsN == nearest(c.seats, Zero, Num(500))
        spt == nearest(c.seatsPerTsubo, Rat(8, 10), Num(4))
    IN  \A i \in tierRows(c) :
          /\ Mul(r.tsubo, spt) = seatsN
          /\ r.rentPerTsubo =
               Mul(Num(AREA_MASTER[i].baseRentPerTsubo),
                   Mul(STATION_DISTANCE[c.stationDistance].factor,
                       TRADE_AREA[c.tradeArea].factor))
          /\ r.estimatedRentMonthly = Mul(r.tsubo, r.rentPerTsubo)
          /\ r.areaLabel = AREA_MASTER[i].label

\* C18 witness: kyoto_core, 1-3 minutes on foot, tourism, 600 seats (500 used)
\* at 1.6 seats per tsubo: 312.5 tsubo at 24000 x 1.15 x 1.25 = 34500.
C18_Witness ==
  /\ call.fn = "compute"
  /\ call.done
  /\ call.args[1].area = "kyoto_core"
  /\ call.args[1].stationDistance = "walk_1_3"
  /\ call.args[1].tradeArea = "tourism"
  /\ call.args[1].seats = Num(600)
  /\ call.args[1].seatsPerTsubo = Rat(16, 10)
  /\ call.ret.rentSuggestion.tsubo = Rat(625, 2)
  /\ call.ret.rentSuggestion.rentPerTsubo = Num(34500)
  /\ call.ret.rentSuggestion.estimatedRentMonthly = Num(10781250)
  /\ call.ret.rentSuggestion.areaLabel = "label_kyoto_core"

\* The tiers with a prefecture rule and a narrower keyword rule, and the
\* tiers with a prefecture rule
keywordTiers == {i \in 1..Len(AREA_MASTER) : Len(AREA_MASTER[i].patterns) = 2}

prefectureTiers ==
  keywordTiers \cup {i \in 1..Len(AREA_MASTER) : AREA_MASTER[i].key = "regional_city"}

\* a names tier i's prefecture and one of tier i's narrower keywords
namesTier(i, a) ==
  test(AREA_MASTER[i].patterns[1], a) /\ test(AREA_MASTER[i].patterns[2], a)

\* C19: an address that names the prefecture and a narrower keyword of one
\* tier only resolves to that tier, and an address that names a prefecture
\* resolves to no tier of a prefecture it does not name.
C19_SpecificBeforeGeneral ==
  (call.fn = "detectAreaFromAddress" /\ call.done) =>
    LET a == trim(call.args[1])
    IN  /\ \A i \in keywordTiers :
             (namesTier(i, a) /\ \A j \in keywordTiers \ {i} : ~namesTier(j, a)) =>
               call.ret = AREA_MASTER[i].key
        /\ \A j \in prefectureTiers :
             (/\ call.ret = AREA_MASTER[j].key
              /\ \E i \in prefectureTiers : test(AREA_MASTER[i].patterns[1], a)) =>
               test(AREA_MASTER[j].patterns[1], a)

\* C20: in every settled state with manualRates off, the rent percentage the
\* preset tab shows (the suggested ratio when autoSetRentRate is on and the
\* suggestion is positive, else the preset rent) is the percentage of the
\* rent rate the projection uses (normalized.rent, the clamped rentRate).
C20_ShownRentIsAppliedRent ==
  (Settled(ui) /\ ~ui.manualRates) =>
    formatPct(presetTabRent(ui).rate) = formatPct(effectiveRates(ui).rent)

\* Every input of the component
allInputs(c) == <<inputsExceptOccupancyTurnover(c), c.occupancy, c.turnover>>

\* c after the commits that run its pending effects (two commits settle every
\* state a handler leaves: the second runs what the first one's writes set off)
settle(c) ==
  IF Settled(c) THEN c
  ELSE IF Settled(commit(c)) THEN commit(c)
  ELSE commit(commit(c))

\* C21: every press of Reset, once the effects have settled, leaves the inputs,
\* the effective food, labor and rent rates and the projection outputs of a
\* freshly mounted component.
C21_ResetRestoresInitial ==
  [][(ui' \in reset(ui) /\ ui' # ui) =>
       /\ Settled(settle(ui'))
       /\ allInputs(settle(ui')) = allInputs(settle(Mount))
       /\ effectiveRates(settle(ui')) = effectiveRates(settle(Mount))
       /\ normalized(settle(ui')) = normalized(settle(Mount))]_vars
====
